---- MODULE Spec2Model ----
(***************************************************************************)
(* A model of lfsapi/lfsapi.go: the per-host HTTP client cache of Client,  *)
(* its construction from two environments, proxy resolution, the typed     *)
(* lookups of testEnv and the content-type gate of decodeResponse.         *)
(*                                                                         *)
(* Go strings are modelled as sequences of one-character strings, so that  *)
(* prefix tests, case folding, integer parsing and the media type patterns *)
(* are computed character by character.                                    *)
(***************************************************************************)
EXTENDS Integers, Sequences, FiniteSets, TLC

VARIABLES
    osEnv,      \* NewClient's first argument (process environment)
    gitEnv,     \* NewClient's second argument (configuration store)
    made,       \* how the Client came to be: "none", "new", "literal", "failed"
    c,          \* the Client struct (configuration snapshot, hostClients, envs)
    clientMu,   \* Client.clientMu: 0 when free, else the caller holding it
    heap,       \* the http.Client values allocated so far; a pointer is an index
    pc,         \* each caller's position in httpClient / Do
    frame,      \* each caller's locals: operation, host argument, results
    calls,      \* the number of calls of httpClient / Do started so far
    returns,    \* history: every <<host, client>> that httpClient has returned
    in,         \* the inputs of a pure function under check
    out         \* the results of a pure function under check

vars == <<osEnv, gitEnv, made, c, clientMu, heap, pc, frame, returns, calls, in, out>>

(***************************************************************************)
(* Strings                                                                 *)
(***************************************************************************)

Upper == <<"A","B","C","D","E","F","G","H","I","J","K","L","M",
           "N","O","P","Q","R","S","T","U","V","W","X","Y","Z">>
Lower == <<"a","b","c","d","e","f","g","h","i","j","k","l","m",
           "n","o","p","q","r","s","t","u","v","w","x","y","z">>
Digits == <<"0","1","2","3","4","5","6","7","8","9">>

\* strings.ToLower on one character
ToLowerRune(ch) ==
    IF \E i \in 1..26 : Upper[i] = ch
    THEN Lower[CHOOSE i \in 1..26 : Upper[i] = ch]
    ELSE ch

\* strings.ToLower
ToLower(s) == [i \in 1..Len(s) |-> ToLowerRune(s[i])]

\* strings.HasPrefix
HasPrefix(s, prefix) ==
    /\ Len(s) >= Len(prefix)
    /\ SubSeq(s, 1, Len(prefix)) = prefix

IsDigit(ch) == \E i \in 1..10 : Digits[i] = ch
DigitVal(ch) == (CHOOSE i \in 1..10 : Digits[i] = ch) - 1

\* the decimal value of a run of digits, most significant first
RECURSIVE Accumulate(_, _)
Accumulate(s, n) ==
    IF s = <<>> THEN n
    ELSE Accumulate(Tail(s), n * 10 + DigitVal(Head(s)))

\* strconv.Atoi: an optional sign, then one or more decimal digits and nothing
\* else; [n, err] with err TRUE for a syntax error.  (A range error takes the
\* same err branch in testEnv.Int; it needs more digits than any string of
\* the inputs has.)
Atoi(s) ==
    LET signed == Len(s) > 0 /\ s[1] \in {"+", "-"}
        digits == IF signed THEN Tail(s) ELSE s
        syntax == Len(digits) > 0 /\ \A i \in 1..Len(digits) : IsDigit(digits[i])
    IN  IF ~syntax THEN [n |-> 0, err |-> TRUE]
        ELSE IF s[1] = "-" THEN [n |-> 0 - Accumulate(digits, 0), err |-> FALSE]
        ELSE [n |-> Accumulate(digits, 0), err |-> FALSE]

(***************************************************************************)
(* The env interface and testEnv (a map from key to string)                *)
(***************************************************************************)

\* a testEnv with no entries
EmptyMap == [k \in {} |-> <<>>]

\* An env value: isNil for the nil interface; m, the map of the plain keys;
\* and the host-qualified settings of the configuration store, kept apart
\* from m: hostSSLVerify (host -> verify on/off) and hostCAs (the hosts
\* with certificate authorities of their own).
Env(m, hostSSLVerify, hostCAs) ==
    [isNil |-> FALSE, m |-> m, hostSSLVerify |-> hostSSLVerify, hostCAs |-> hostCAs]

NoHostSSLVerify == [h \in {} |-> TRUE]

\* the nil value of the env interface
NilEnv == [isNil |-> TRUE, m |-> EmptyMap,
           hostSSLVerify |-> NoHostSSLVerify, hostCAs |-> {}]

\* make(testEnv)
MakeTestEnv == Env(EmptyMap, NoHostSSLVerify, {})

\* testEnv.Get: <<value, ok>>; an absent key gives the empty string
testEnvGet(e, key) ==
    IF key \in DOMAIN e.m THEN <<e.m[key], TRUE>> ELSE <<<<>>, FALSE>>

\* an Int that gives 0, not def, for a string that does not parse
testEnvIntZero(e, key, def) ==
    LET s == testEnvGet(e, key)[1]
    IN  IF Len(s) = 0 THEN def
        ELSE IF Atoi(s).err THEN 0
        ELSE Atoi(s).n

\* testEnv.Int
testEnvInt(e, key, def) ==
    LET s == testEnvGet(e, key)[1]
    IN  IF Len(s) = 0 THEN def
        ELSE IF Atoi(s).err THEN def
        ELSE Atoi(s).n

\* the literals of testEnv.Bool's switch
TrueWords ==
    { <<"t","r","u","e">>, <<"1">>, <<"o","n">>, <<"y","e","s">>, <<"t">> }
FalseWords ==
    { <<"f","a","l","s","e">>, <<"0">>, <<"o","f","f">>, <<"n","o">>, <<"f">> }

\* a Bool that takes a string it does not recognize for true
testEnvBoolLenient(e, key, def) ==
    LET s == testEnvGet(e, key)[1]
    IN  IF Len(s) = 0 THEN def
        ELSE CASE ToLower(s) \in TrueWords  -> TRUE
               [] ToLower(s) \in FalseWords -> FALSE
               [] OTHER                     -> TRUE

\* a Bool that falls back to def for a string it does not recognize
testEnvBoolDefault(e, key, def) ==
    LET s == testEnvGet(e, key)[1]
    IN  IF Len(s) = 0 THEN def
        ELSE CASE ToLower(s) \in TrueWords  -> TRUE
               [] ToLower(s) \in FalseWords -> FALSE
               [] OTHER                     -> def

\* testEnv.Bool
testEnvBool(e, key, def) ==
    LET s == testEnvGet(e, key)[1]
    IN  IF Len(s) = 0 THEN def
        ELSE CASE ToLower(s) \in TrueWords  -> TRUE
               [] ToLower(s) \in FalseWords -> FALSE
               [] OTHER                     -> FALSE

(***************************************************************************)
(* Proxy resolution                                                        *)
(***************************************************************************)

HttpsScheme == <<"h","t","t","p","s",":","/","/">>

\* an HTTPS proxy taken from the process environment before the store
httpsProxyEnvFirst(os, git) ==
    LET httpProxy   == testEnvGet(git, "http.proxy")[1]
        httpsProxy0 == testEnvGet(os, "HTTPS_PROXY")[1]
        httpsProxy1 == IF Len(httpsProxy0) = 0 THEN testEnvGet(os, "https_proxy")[1]
                       ELSE httpsProxy0
    IN  IF Len(httpsProxy1) = 0 /\ HasPrefix(httpProxy, HttpsScheme) THEN httpProxy
        ELSE httpsProxy1

\* lines 157-169: the HTTPS proxy
httpsProxyOf(os, git) ==
    LET httpProxy   == testEnvGet(git, "http.proxy")[1]
        httpsProxy0 == IF HasPrefix(httpProxy, HttpsScheme) THEN httpProxy ELSE <<>>
        httpsProxy1 == IF Len(httpsProxy0) = 0 THEN testEnvGet(os, "HTTPS_PROXY")[1]
                       ELSE httpsProxy0
    IN  IF Len(httpsProxy1) = 0 THEN testEnvGet(os, "https_proxy")[1]
        ELSE httpsProxy1

\* an HTTP proxy that asks http_proxy before HTTP_PROXY
httpProxyLowerFirst(os, git) ==
    LET httpProxy0 == testEnvGet(git, "http.proxy")[1]
        httpProxy1 == IF Len(httpProxy0) = 0 THEN testEnvGet(os, "http_proxy")[1]
                      ELSE httpProxy0
    IN  IF Len(httpProxy1) = 0 THEN testEnvGet(os, "HTTP_PROXY")[1]
        ELSE httpProxy1

\* lines 158 and 171-177: the HTTP proxy
httpProxyOf(os, git) ==
    LET httpProxy0 == testEnvGet(git, "http.proxy")[1]
        httpProxy1 == IF Len(httpProxy0) = 0 THEN testEnvGet(os, "HTTP_PROXY")[1]
                      ELSE httpProxy0
    IN  IF Len(httpProxy1) = 0 THEN testEnvGet(os, "http_proxy")[1]
        ELSE httpProxy1

\* a NO_PROXY that the configuration store can set
noProxyFromStore(os, git) ==
    LET noProxy0 == testEnvGet(git, "NO_PROXY")[1]
        noProxy1 == IF Len(noProxy0) = 0 THEN testEnvGet(os, "NO_PROXY")[1]
                    ELSE noProxy0
    IN  IF Len(noProxy1) = 0 THEN testEnvGet(os, "no_proxy")[1]
        ELSE noProxy1

\* lines 179-182: NO_PROXY; gitEnv is not read
noProxyOf(os, git) ==
    LET noProxy == testEnvGet(os, "NO_PROXY")[1]
    IN  IF Len(noProxy) = 0 THEN testEnvGet(os, "no_proxy")[1]
        ELSE noProxy

\* getProxyServers: <<httpsProxy, httpProxy, noProxy>>
getProxyServers(os, git) ==
    <<httpsProxyOf(os, git), httpProxyOf(os, git), noProxyOf(os, git)>>

(***************************************************************************)
(* The Client and its construction                                         *)
(***************************************************************************)

\* a nil map[string]*http.Client, and make(map[string]*http.Client)
NilHostClients == [isNil |-> TRUE, m |-> [h \in {} |-> 0]]
MakeHostClients == [isNil |-> FALSE, m |-> [h \in {} |-> 0]]

\* the zero value of type Client
ZeroClient ==
    [ SkipPrompt          |-> FALSE,   \* Credentials.SkipPrompt
      DialTimeout         |-> 0,
      KeepaliveTimeout    |-> 0,
      TLSTimeout          |-> 0,
      ConcurrentTransfers |-> 0,
      HTTPSProxy          |-> <<>>,
      HTTPProxy           |-> <<>>,
      NoProxy             |-> <<>>,
      SkipSSLVerify       |-> FALSE,
      hostClients         |-> NilHostClients,
      gitEnv              |-> NilEnv,
      osEnv               |-> NilEnv ]

\* ParseNetrc(osEnv): the outcomes it can have; whether the netrc file parses
\* is decided by the file system, outside the two environments
ParseNetrc(os) == { [err |-> FALSE], [err |-> TRUE] }

\* line 70 with || taken for &&
SkipSSLVerifyBoth(os, git) ==
    /\ ~testEnvBool(git, "http.sslverify", TRUE)
    /\ testEnvBool(os, "GIT_SSL_NO_VERIFY", FALSE)

\* line 70: the value of SkipSSLVerify
SkipSSLVerify(os, git) ==
    \/ ~testEnvBool(git, "http.sslverify", TRUE)
    \/ testEnvBool(os, "GIT_SSL_NO_VERIFY", FALSE)

\* the Client of lines 53-75, built from two environments that are not nil
NewClientValue(os1, git1) ==
    LET proxies == getProxyServers(os1, git1)
    IN  [ SkipPrompt          |-> ~testEnvBool(os1, "GIT_TERMINAL_PROMPT", TRUE),
          DialTimeout         |-> testEnvInt(git1, "lfs.dialtimeout", 0),
          KeepaliveTimeout    |-> testEnvInt(git1, "lfs.keepalive", 0),
          TLSTimeout          |-> testEnvInt(git1, "lfs.tlstimeout", 0),
          ConcurrentTransfers |-> testEnvInt(git1, "lfs.concurrenttransfers", 0),
          SkipSSLVerify       |-> SkipSSLVerify(os1, git1),
          HTTPSProxy          |-> proxies[1],
          HTTPProxy           |-> proxies[2],
          NoProxy             |-> proxies[3],
          hostClients         |-> NilHostClients,
          gitEnv              |-> git1,
          osEnv               |-> os1 ]

\* a NewClient that refuses an absent process environment
NewClientStrict(os, git, netrc) ==
    LET os1  == IF os.isNil THEN MakeTestEnv ELSE os
        git1 == IF git.isNil THEN MakeTestEnv ELSE git
    IN  IF netrc.err \/ os.isNil
        THEN [ok |-> FALSE, c |-> ZeroClient, err |-> "netrc"]
        ELSE [ok |-> TRUE, c |-> NewClientValue(os1, git1), err |-> "nil"]

\* NewClient, given the outcome of ParseNetrc: [ok, c, err], where ok says
\* that the returned *Client is not nil, c is what it points to, and err is
\* the returned error
NewClient(os, git, netrc) ==
    LET os1  == IF os.isNil THEN MakeTestEnv ELSE os
        git1 == IF git.isNil THEN MakeTestEnv ELSE git
    IN  IF netrc.err
        THEN [ok |-> FALSE, c |-> ZeroClient, err |-> "netrc"]
        ELSE [ok |-> TRUE, c |-> NewClientValue(os1, git1), err |-> "nil"]

(***************************************************************************)
(* Building the http.Client of a host                                      *)
(***************************************************************************)

\* isCertVerificationDisabledForHost: a host-specific setting of the
\* configuration store wins over the global flag, in either direction
isCertVerificationDisabledForHost(cl, host) ==
    IF host \in DOMAIN cl.gitEnv.hostSSLVerify
    THEN ~cl.gitEnv.hostSSLVerify[host]
    ELSE cl.SkipSSLVerify

\* getRootCAsForHost: the host's own certificate authorities if the
\* configuration store names any, else nil (the system's trust store)
getRootCAsForHost(cl, host) ==
    IF host \in cl.gitEnv.hostCAs THEN "hostCAs" ELSE "nil"

\* a defaulting that lets 0 through
OrDefaultBelowZero(v, def) == IF v < 0 THEN def ELSE v

\* the defaulting of lines 110-128: a setting below 1 becomes the default
OrDefault(v, def) == IF v < 1 THEN def ELSE v

\* a client whose trust roots are set whether or not verification is on
BuildClientMerged(cl, host) ==
    LET concurrentTransfers == OrDefault(cl.ConcurrentTransfers, 3)
        dialtime            == OrDefault(cl.DialTimeout, 30)
        keepalivetime       == OrDefault(cl.KeepaliveTimeout, 1800)
        tlstime             == OrDefault(cl.TLSTimeout, 30)
        disabled            == isCertVerificationDisabledForHost(cl, host)
    IN  [ Transport |->
            [ Proxy               |-> <<cl.HTTPSProxy, cl.HTTPProxy, cl.NoProxy>>,
              DialTimeout         |-> dialtime,
              KeepAlive           |-> keepalivetime,
              TLSHandshakeTimeout |-> tlstime,
              MaxIdleConnsPerHost |-> concurrentTransfers,
              TLSClientConfig     |->
                  [ InsecureSkipVerify |-> disabled,
                    RootCAs |-> getRootCAsForHost(cl, host) ] ],
          host |-> host ]

\* the *http.Client that httpClient builds for host (lines 110-149);
\* durations are in seconds
BuildClient(cl, host) ==
    LET concurrentTransfers == OrDefault(cl.ConcurrentTransfers, 3)
        dialtime            == OrDefault(cl.DialTimeout, 30)
        keepalivetime       == OrDefault(cl.KeepaliveTimeout, 1800)
        tlstime             == OrDefault(cl.TLSTimeout, 30)
        disabled            == isCertVerificationDisabledForHost(cl, host)
    IN  [ Transport |->
            [ Proxy               |-> <<cl.HTTPSProxy, cl.HTTPProxy, cl.NoProxy>>,
              DialTimeout         |-> dialtime,
              KeepAlive           |-> keepalivetime,
              TLSHandshakeTimeout |-> tlstime,
              MaxIdleConnsPerHost |-> concurrentTransfers,
              TLSClientConfig     |->
                  [ InsecureSkipVerify |-> disabled,
                    RootCAs |-> IF disabled THEN "nil"
                                ELSE getRootCAsForHost(cl, host) ] ],
          host |-> host ]   \* not a field: the host this value was built for

(***************************************************************************)
(* Bounds and inputs of the concurrent specification                       *)
(***************************************************************************)

NumCallers == 2     \* concurrent callers of httpClient / Do
MaxCalls == 3       \* calls of httpClient / Do made in all

Callers == 1..NumCallers

\* host strings: one name, the same name in upper case, and with a port
Hosts == { <<"h">>, <<"H">>, <<"h",":","8">> }

\* Do has not returned
NoReturn == [res |-> "none", err |-> "none"]

\* a caller's locals before a call
IdleFrame ==
    [ op     |-> "none",   \* "httpClient" or "Do"
      host   |-> <<>>,     \* httpClient's argument, req.Host for Do
      client |-> 0,        \* the *http.Client found or built; 0 is nil
      res    |-> "nil",    \* Do's local res (line 82)
      err    |-> "nil",    \* Do's local err (line 82)
      ret    |-> NoReturn, \* the values Do has returned
      attempts |-> 0,      \* calls of the http.Client's Do made by this Do
      handled  |-> 0,      \* calls of handleResponse made by this Do
      herr   |-> "none" ]  \* what handleResponse returned

Constructed == made \in {"new", "literal"}

(***************************************************************************)
(* Construction                                                            *)
(***************************************************************************)

\* c, err := NewClient(osEnv, gitEnv); out records what ParseNetrc and
\* NewClient returned
DoNewClient ==
    /\ made = "none"
    /\ \E netrc \in ParseNetrc(IF osEnv.isNil THEN MakeTestEnv ELSE osEnv) :
          LET r == NewClient(osEnv, gitEnv, netrc)
          IN  /\ made' = IF r.ok THEN "new" ELSE "failed"
              /\ c' = r.c
              /\ out' = [fn |-> "NewClient", netrc |-> netrc,
                         ok |-> r.ok, err |-> r.err]
    /\ UNCHANGED <<osEnv, gitEnv, clientMu, heap, pc, frame, in, returns, calls>>

(***************************************************************************)
(* httpClient and Do, one step at a time                                   *)
(***************************************************************************)

\* a caller enters c.httpClient(host), directly or from Do (line 82)
Call(t, op, host) ==
    /\ Constructed
    /\ pc[t] = "idle"
    /\ calls < MaxCalls
    /\ calls' = calls + 1
    /\ frame' = [frame EXCEPT ![t] = [ @ EXCEPT !.op = op, !.host = host ]]
    /\ pc' = [pc EXCEPT ![t] = "lock"]
    /\ UNCHANGED <<osEnv, gitEnv, made, c, clientMu, heap, in, out, returns>>

\* a Lock that does not wait
MutexAny(mu) == TRUE

\* sync.Mutex: Lock returns only when no goroutine holds the mutex
MutexFree(mu) == mu = 0

\* line 91: c.clientMu.Lock()
Lock(t) ==
    /\ pc[t] = "lock"
    /\ MutexFree(clientMu)
    /\ clientMu' = t
    /\ pc' = [pc EXCEPT ![t] = "prepare"]
    /\ UNCHANGED <<osEnv, gitEnv, made, c, heap, frame, in, out, returns, calls>>

\* a httpClient that stores the defaults it applies in the Client
PrepareStoresDefaults(t) ==
    /\ pc[t] = "prepare"
    /\ c' = [c EXCEPT !.gitEnv = IF @.isNil THEN MakeTestEnv ELSE @,
                      !.osEnv = IF @.isNil THEN MakeTestEnv ELSE @,
                      !.hostClients = IF @.isNil THEN MakeHostClients ELSE @,
                      !.KeepaliveTimeout = IF @ < 1 THEN 1800 ELSE @]
    /\ pc' = [pc EXCEPT ![t] = "lookup"]
    /\ UNCHANGED <<osEnv, gitEnv, made, clientMu, heap, frame, in, out, returns, calls>>

\* lines 94-104: nil environments and a nil map are replaced by empty ones
Prepare(t) ==
    /\ pc[t] = "prepare"
    /\ c' = [c EXCEPT !.gitEnv = IF @.isNil THEN MakeTestEnv ELSE @,
                      !.osEnv = IF @.isNil THEN MakeTestEnv ELSE @,
                      !.hostClients = IF @.isNil THEN MakeHostClients ELSE @]
    /\ pc' = [pc EXCEPT ![t] = "lookup"]
    /\ UNCHANGED <<osEnv, gitEnv, made, clientMu, heap, frame, in, out, returns, calls>>

\* a cache keyed without regard to case
CacheKeyFolded(host) == ToLower(host)

\* the key under which httpClient looks a host up and stores its client
CacheKey(host) == host

\* a lookup whose hit returns without running the Unlock
LookupHitReturns(t) ==
    /\ pc[t] = "lookup"
    /\ IF CacheKey(frame[t].host) \in DOMAIN c.hostClients.m
       THEN /\ frame' = [frame EXCEPT ![t].client =
                                  c.hostClients.m[CacheKey(frame[t].host)]]
            /\ pc' = [pc EXCEPT ![t] = IF frame[t].op = "Do" THEN "transport"
                                       ELSE "done"]
       ELSE /\ frame' = frame
            /\ pc' = [pc EXCEPT ![t] = "build"]
    /\ UNCHANGED <<osEnv, gitEnv, made, c, clientMu, heap, in, out, returns, calls>>

\* lines 106-108: the cached client is returned if there is one
Lookup(t) ==
    /\ pc[t] = "lookup"
    /\ IF CacheKey(frame[t].host) \in DOMAIN c.hostClients.m
       THEN /\ frame' = [frame EXCEPT ![t].client =
                                  c.hostClients.m[CacheKey(frame[t].host)]]
            /\ pc' = [pc EXCEPT ![t] = "unlock"]
       ELSE /\ frame' = frame
            /\ pc' = [pc EXCEPT ![t] = "build"]
    /\ UNCHANGED <<osEnv, gitEnv, made, c, clientMu, heap, in, out, returns, calls>>

\* lines 110-149: a new http.Client is allocated
Build(t) ==
    /\ pc[t] = "build"
    /\ heap' = Append(heap, BuildClient(c, frame[t].host))
    /\ frame' = [frame EXCEPT ![t].client = Len(heap) + 1]
    /\ pc' = [pc EXCEPT ![t] = "insert"]
    /\ UNCHANGED <<osEnv, gitEnv, made, c, clientMu, in, out, returns, calls>>

\* an assignment that drops the other entries
MapPutOnly(m, key, v) == [k \in {key} |-> v]

\* m with key mapped to v
MapPut(m, key, v) ==
    [k \in DOMAIN m \cup {key} |-> IF k = key THEN v ELSE m[k]]

\* line 151: c.hostClients[host] = httpClient
Insert(t) ==
    /\ pc[t] = "insert"
    /\ c' = [c EXCEPT !.hostClients.m =
                          MapPut(@, CacheKey(frame[t].host), frame[t].client)]
    /\ pc' = [pc EXCEPT ![t] = "unlock"]
    /\ UNCHANGED <<osEnv, gitEnv, made, clientMu, heap, frame, in, out, returns, calls>>

\* a return that leaves the mutex locked
UnlockKeeps(t) ==
    /\ pc[t] = "unlock"
    /\ returns' = returns \cup {<<frame[t].host, frame[t].client>>}
    /\ pc' = [pc EXCEPT ![t] = IF frame[t].op = "Do" THEN "transport" ELSE "done"]
    /\ UNCHANGED <<osEnv, gitEnv, made, c, clientMu, heap, frame, in, out, calls>>

\* line 92: the deferred c.clientMu.Unlock(), and the return
Unlock(t) ==
    /\ pc[t] = "unlock"
    /\ clientMu' = 0
    /\ returns' = returns \cup {<<frame[t].host, frame[t].client>>}
    /\ pc' = [pc EXCEPT ![t] = IF frame[t].op = "Do" THEN "transport" ELSE "done"]
    /\ UNCHANGED <<osEnv, gitEnv, made, c, heap, frame, in, out, calls>>

\* the outcomes of the returned client's Do(req), decided by the network:
\* a response and no error, or an error of the connection with no response,
\* or an error of the redirect policy with the last response, its body closed
RoundTrip ==
    { [res |-> "response", err |-> "nil"],
      [res |-> "nil", err |-> "dial"],
      [res |-> "redirected", err |-> "redirect"] }

\* the outcomes of c.handleResponse(res): nil, or the error of a response
\* that reports a failure or cannot be decoded
handleResponse(res) == { "nil", "decode" }

\* a Do that post-processes whatever the transport returned
AfterTransportAlways(err) == "handle"

\* lines 83-87: where Do goes after the transport call
AfterTransport(err) == IF err # "nil" THEN "done" ELSE "handle"

\* a Do that gives up the response when post-processing fails
DoReturnDropsResponse(res, err) ==
    [res |-> IF err = "nil" THEN res ELSE "nil", err |-> err]

\* lines 84 and 87: the values Do returns
DoReturn(res, err) == [res |-> res, err |-> err]

\* lines 82-85: the returned client's Do(req), and the return of its error
Transport(t) ==
    /\ pc[t] = "transport"
    /\ \E r \in RoundTrip :
          /\ frame' = [frame EXCEPT ![t] =
                          [ @ EXCEPT !.res = r.res, !.err = r.err,
                                     !.attempts = @ + 1,
                                     !.ret = IF AfterTransport(r.err) = "done"
                                             THEN DoReturn(r.res, r.err)
                                             ELSE NoReturn ]]
          /\ pc' = [pc EXCEPT ![t] = AfterTransport(r.err)]
    /\ UNCHANGED <<osEnv, gitEnv, made, c, clientMu, heap, in, out, returns, calls>>

\* line 87: return res, c.handleResponse(res)
HandleResponse(t) ==
    /\ pc[t] = "handle"
    /\ \E e \in handleResponse(frame[t].res) :
          frame' = [frame EXCEPT ![t] =
                       [ @ EXCEPT !.handled = @ + 1, !.herr = e,
                                  !.ret = DoReturn(frame[t].res, e) ]]
    /\ pc' = [pc EXCEPT ![t] = "done"]
    /\ UNCHANGED <<osEnv, gitEnv, made, c, clientMu, heap, in, out, returns, calls>>

\* the caller has used its result; the call's locals are gone
Return(t) ==
    /\ pc[t] = "done"
    /\ pc' = [pc EXCEPT ![t] = "idle"]
    /\ frame' = [frame EXCEPT ![t] = IdleFrame]
    /\ UNCHANGED <<osEnv, gitEnv, made, c, clientMu, heap, in, out, returns, calls>>

(***************************************************************************)
(* The concurrent specification: NewClient or a literal Client, then       *)
(* NumCallers callers of httpClient and Do                                 *)
(***************************************************************************)

\* no pure function is under check
NoIn == [fn |-> "none"]
NoOut == [fn |-> "none"]

\* strings used as settings
Str5 == <<"5">>
StrFalse == <<"f","a","l","s","e">>
StrProxyC == HttpsScheme \o <<"c">>
StrProxyU == <<"h","t","t","p",":","/","/","u">>

\* a configuration store and a process environment with settings
MainGitEnv ==
    Env( ("lfs.dialtimeout" :> Str5) @@ ("lfs.concurrenttransfers" :> <<"0">>)
           @@ ("http.sslverify" :> StrFalse) @@ ("http.proxy" :> StrProxyC),
         (<<"h">> :> TRUE), {<<"h">>, <<"H">>} )
MainOsEnv ==
    Env( ("GIT_SSL_NO_VERIFY" :> <<"1">>) @@ ("HTTP_PROXY" :> StrProxyU)
           @@ ("NO_PROXY" :> <<"h">>),
         NoHostSSLVerify, {} )

\* the <<osEnv, gitEnv>> arguments the callers run under
MainEnvs == { <<MainOsEnv, MainGitEnv>> }

\* the state before construction: the two environments are given, no Client
\* exists, and MaxCalls - calls0 calls are to be made
InitWith(envs, calls0) ==
    /\ \E e \in envs : osEnv = e[1] /\ gitEnv = e[2]
    /\ made = "none"
    /\ c = ZeroClient
    /\ clientMu = 0
    /\ heap = <<>>
    /\ pc = [t \in Callers |-> "idle"]
    /\ frame = [t \in Callers |-> IdleFrame]
    /\ calls = calls0
    /\ returns = {}
    /\ in = NoIn
    /\ out = NoOut

\* c := &Client{}: a Client that is the zero value of its type, which
\* httpClient completes on first use; no environments are given
InitLiteral ==
    /\ osEnv = NilEnv
    /\ gitEnv = NilEnv
    /\ made = "literal"
    /\ c = ZeroClient
    /\ clientMu = 0
    /\ heap = <<>>
    /\ pc = [t \in Callers |-> "idle"]
    /\ frame = [t \in Callers |-> IdleFrame]
    /\ calls = 0
    /\ returns = {}
    /\ in = NoIn
    /\ out = NoOut

\* the callers are given a Client that NewClient is to build, or a literal one
Init == InitWith(MainEnvs, 0) \/ InitLiteral

Next ==
    \/ DoNewClient
    \/ \E t \in Callers, op \in {"httpClient", "Do"}, host \in Hosts : Call(t, op, host)
    \/ \E t \in Callers : Lock(t)
    \/ \E t \in Callers : Prepare(t)
    \/ \E t \in Callers : Lookup(t)
    \/ \E t \in Callers : Build(t)
    \/ \E t \in Callers : Insert(t)
    \/ \E t \in Callers : Unlock(t)
    \/ \E t \in Callers : Transport(t)
    \/ \E t \in Callers : HandleResponse(t)
    \/ \E t \in Callers : Return(t)

Spec == Init /\ [][Next]_vars

(***************************************************************************)
(* The host client cache                                                   *)
(***************************************************************************)

\* the pointers to the http.Client values built for host h
BuiltFor(h) == { p \in 1..Len(heap) : heap[p].host = h }

\* C1: whatever the interleaving of httpClient and Do calls, no host string
\* has more than one client built for it; every client httpClient returns
\* was built for exactly the host string asked for (so strings differing in
\* case or by a port never share a client) and is the one the cache holds;
\* and all returns for one host string are the same pointer.
C1_OneClientPerHost ==
    /\ \A h \in Hosts : Cardinality(BuiltFor(h)) <= 1
    /\ \A r \in returns :
          /\ r[2] \in BuiltFor(r[1])
          /\ r[1] \in DOMAIN c.hostClients.m
          /\ c.hostClients.m[r[1]] = r[2]
    /\ \A r1, r2 \in returns : r1[1] = r2[1] => r1[2] = r2[2]
    /\ \A t \in Callers :
          pc[t] \in {"transport", "handle", "done"} =>
              <<frame[t].host, frame[t].client>> \in returns

\* C1 witness: two callers hold the result of a call for "h", the same
\* pointer, while a second client exists for "H"
C1_Witness ==
    /\ pc[1] = "done" /\ pc[2] = "done"
    /\ frame[1].host = <<"h">> /\ frame[2].host = <<"h">>
    /\ frame[1].client = frame[2].client
    /\ BuiltFor(<<"H">>) # {}
    /\ Len(heap) = 2

\* C2: NewClient leaves the cache empty; an entry for h appears only by the
\* insertion (line 151) of a caller whose argument is h; and an entry, once
\* there, keeps its pointer, and the client it points to keeps its value,
\* in every later step.
C2_EntriesStable ==
    [][ /\ (made = "none" /\ made' = "new") => DOMAIN c'.hostClients.m = {}
        /\ \A h \in DOMAIN c.hostClients.m :
              /\ h \in DOMAIN c'.hostClients.m
              /\ c'.hostClients.m[h] = c.hostClients.m[h]
              /\ heap'[c'.hostClients.m[h]] = heap[c.hostClients.m[h]]
        /\ \A h \in DOMAIN c'.hostClients.m \ DOMAIN c.hostClients.m :
              \E t \in Callers : /\ pc[t] = "insert" /\ pc'[t] = "unlock"
                                  /\ frame[t].host = h
                                  /\ c'.hostClients.m[h] = frame[t].client
                                  /\ BuiltFor(h) = {frame[t].client}
      ]_vars

\* C2 witness: with entries for "h" and "H" in the cache, a call for "h"
\* has returned the entry that is there
C2_Witness ==
    /\ made = "new"
    /\ DOMAIN c.hostClients.m = { <<"h">>, <<"H">> }
    /\ \E t \in Callers : /\ pc[t] = "done" /\ frame[t].host = <<"h">>
                           /\ frame[t].client = c.hostClients.m[<<"h">>]

(***************************************************************************)
(* Construction under every setting: the specification SpecConfig draws    *)
(* the two environments from all combinations of the settings below, and   *)
(* one call of httpClient or Do follows                                    *)
(***************************************************************************)

\* in a choice of settings: the key is not set
Absent == <<"absent">>

\* the map holding the settings that a choice f (key -> string or Absent) sets
WithSettings(f) == [k \in {x \in DOMAIN f : f[x] # Absent} |-> f[k]]

IntKeys == {"lfs.dialtimeout", "lfs.keepalive", "lfs.tlstimeout", "lfs.concurrenttransfers"}
IntSettings == { Absent, <<"0">>, <<"-","3">>, <<"1">>, <<"7">> }

BoolSettings ==
    { Absent, <<>>, <<"t","r","u","e">>, <<"T","R","U","E">>, <<"1">>,
      <<"f","a","l","s","e">>, <<"0">>, <<"n","o">>, <<"b","o","g","u","s">>,
      <<"e","n","a","b","l","e","d">> }

ConfigEnvs ==
    { <<NilEnv, NilEnv>>,
      <<NilEnv, Env(("lfs.dialtimeout" :> <<"7">>), NoHostSSLVerify, {})>>,
      <<Env(("GIT_SSL_NO_VERIFY" :> <<"1">>), NoHostSSLVerify, {}), NilEnv>> }
    \cup { <<MakeTestEnv, Env(WithSettings(f), NoHostSSLVerify, {})>> :
              f \in [IntKeys -> IntSettings] }
    \cup { <<Env(WithSettings([k \in {"GIT_SSL_NO_VERIFY"} |-> o]), NoHostSSLVerify, {}),
             Env(WithSettings([k \in {"http.sslverify"} |-> g]), NoHostSSLVerify, {})>> :
              o \in BoolSettings, g \in BoolSettings }

InitConfig == InitWith(ConfigEnvs, MaxCalls - 1)

SpecConfig == InitConfig /\ [][Next]_vars

\* what a key is set to in an environment, or Absent
Setting(e, key) == IF key \in DOMAIN e.m THEN e.m[key] ELSE Absent

\* the settings above that read as true
ReadAsTrue == { <<"t","r","u","e">>, <<"T","R","U","E">>, <<"1">> }

\* C6: after NewClient, SkipSSLVerify is true exactly when http.sslverify of
\* the configuration store reads as false (it is set, not empty, and not one
\* of the true literals) or GIT_SSL_NO_VERIFY of the process environment
\* reads as true; verification stays on only when both say on.
C6_SkipSSLVerify ==
    made = "new" =>
        LET verify   == Setting(gitEnv, "http.sslverify")
            noVerify == Setting(osEnv, "GIT_SSL_NO_VERIFY")
            verifyOn == verify \in {Absent, <<>>} \cup ReadAsTrue
            skip     == noVerify \in ReadAsTrue
        IN  c.SkipSSLVerify = (~verifyOn \/ skip)

\* C6 witness: the configuration store says verify, the process environment
\* says do not, and NewClient has switched verification off
C6_Witness ==
    /\ made = "new"
    /\ Setting(gitEnv, "http.sslverify") = <<"t","r","u","e">>
    /\ Setting(osEnv, "GIT_SSL_NO_VERIFY") = <<"1">>
    /\ c.SkipSSLVerify

\* the integer a setting of IntSettings stands for, 0 when the key is not set
SettingValue(s) ==
    CASE s = Absent       -> 0
      [] s = <<"0">>      -> 0
      [] s = <<"-","3">>  -> 0 - 3
      [] s = <<"1">>      -> 1
      [] s = <<"7">>      -> 7

\* C7: after NewClient each of DialTimeout, KeepaliveTimeout, TLSTimeout and
\* ConcurrentTransfers holds the configured integer (0 when unset) and keeps
\* it in every later state, and every http.Client then built uses the
\* configured value when it is at least 1 and else 30 s, 1800 s, 30 s and 3.
C7_DefaultsAtBuild ==
    made = "new" =>
        LET dial      == SettingValue(Setting(gitEnv, "lfs.dialtimeout"))
            keepalive == SettingValue(Setting(gitEnv, "lfs.keepalive"))
            tls       == SettingValue(Setting(gitEnv, "lfs.tlstimeout"))
            transfers == SettingValue(Setting(gitEnv, "lfs.concurrenttransfers"))
        IN  /\ c.DialTimeout = dial
            /\ c.KeepaliveTimeout = keepalive
            /\ c.TLSTimeout = tls
            /\ c.ConcurrentTransfers = transfers
            /\ \A p \in 1..Len(heap) :
                  /\ heap[p].Transport.DialTimeout = IF dial >= 1 THEN dial ELSE 30
                  /\ heap[p].Transport.KeepAlive =
                        IF keepalive >= 1 THEN keepalive ELSE 1800
                  /\ heap[p].Transport.TLSHandshakeTimeout = IF tls >= 1 THEN tls ELSE 30
                  /\ heap[p].Transport.MaxIdleConnsPerHost =
                        IF transfers >= 1 THEN transfers ELSE 3

\* C7 witness: a client has been built and returned under a dial timeout of
\* 0, a keepalive of 7, a TLS timeout of -3 and no concurrency setting, and
\* the Client's fields still hold 0, 7, -3 and 0
C7_Witness ==
    /\ made = "new"
    /\ Len(heap) = 1
    /\ \E t \in Callers : pc[t] = "done" /\ frame[t].client = 1
    /\ c.DialTimeout = 0 /\ heap[1].Transport.DialTimeout = 30
    /\ c.KeepaliveTimeout = 7 /\ heap[1].Transport.KeepAlive = 7
    /\ c.TLSTimeout = 0 - 3 /\ heap[1].Transport.TLSHandshakeTimeout = 30
    /\ Setting(gitEnv, "lfs.concurrenttransfers") = Absent
    /\ c.ConcurrentTransfers = 0 /\ heap[1].Transport.MaxIdleConnsPerHost = 3

(***************************************************************************)
(* testEnv.Int and testEnv.Bool on their own: the specification SpecEnv    *)
(* draws a stored string, a key and the defaults, and calls them           *)
(***************************************************************************)

MaxLen == 3     \* the longest string drawn over IntAlphabet

IntAlphabet == {"0", "1", "7", "-", "+", "x"}

\* every string over IntAlphabet of at most MaxLen characters
IntStrings == UNION { [1..n -> IntAlphabet] : n \in 0..MaxLen }

\* spellings of the literals of Bool, and strings that are none of them
BoolStrings ==
    { <<"t","r","u","e">>, <<"T","R","U","E">>, <<"T","r","u","e">>, <<"1">>,
      <<"o","n">>, <<"O","N">>, <<"y","e","s">>, <<"Y","e","S">>, <<"t">>, <<"T">>,
      <<"f","a","l","s","e">>, <<"F","A","L","S","E">>, <<"0">>, <<"o","f","f">>,
      <<"n","o">>, <<"N","O">>, <<"f">>, <<"F">>,
      <<"b","o","g","u","s">>, <<"e","n","a","b","l","e","d">>, <<"2">>,
      <<"t","r","u">>, <<"t","r","u","e","e">>, <<" ","t","r","u","e">>,
      <<"y">>, <<"n">>, <<"a","b","c">>, <<"1","2","3","4","5","6","7","8","9">> }

\* the inputs: the map holds the stored string under "x" or holds nothing,
\* and the key looked up is "x" or "y"
EnvInputs ==
    { [ fn |-> "env", e |-> Env(m, NoHostSSLVerify, {}), key |-> k,
        defInt |-> di, defBool |-> db ] :
        m \in {EmptyMap} \cup { ("x" :> s) : s \in IntStrings \cup BoolStrings },
        k \in {"x", "y"}, di \in {0, 30, 0 - 1}, db \in BOOLEAN }

\* the state in which a pure function is to be called on one of inputs
InitPure(inputs, out0) ==
    /\ osEnv = NilEnv
    /\ gitEnv = NilEnv
    /\ made = "none"
    /\ c = ZeroClient
    /\ clientMu = 0
    /\ heap = <<>>
    /\ pc = [t \in Callers |-> "idle"]
    /\ frame = [t \in Callers |-> IdleFrame]
    /\ calls = 0
    /\ returns = {}
    /\ in \in inputs
    /\ out = out0

pureVars == <<osEnv, gitEnv, made, c, clientMu, heap, pc, frame, calls, returns, in>>

\* in.e.Int(in.key, in.defInt)
CallInt ==
    /\ in.fn = "env"
    /\ out.fn # "Int"
    /\ out' = [fn |-> "Int", int |-> testEnvInt(in.e, in.key, in.defInt)]
    /\ UNCHANGED pureVars

\* in.e.Bool(in.key, in.defBool)
CallBool ==
    /\ in.fn = "env"
    /\ out.fn # "Bool"
    /\ out' = [fn |-> "Bool", bool |-> testEnvBool(in.e, in.key, in.defBool)]
    /\ UNCHANGED pureVars

InitEnv == InitPure(EnvInputs, NoOut)

NextEnv == CallInt \/ CallBool

SpecEnv == InitEnv /\ [][NextEnv]_vars

\* a and b are the same character, or the two cases of one letter
SameLetter(a, b) ==
    \/ a = b
    \/ \E i \in 1..26 : {a, b} = {Upper[i], Lower[i]}

\* s spells w, case aside
Spells(s, w) ==
    /\ Len(s) = Len(w)
    /\ \A i \in 1..Len(w) : SameLetter(s[i], w[i])

\* C8: Bool(key, d) is d when nothing or the empty string is stored under
\* key; true when the stored string spells, case aside, one of true, 1, on,
\* yes, t; and false for every other stored string, whatever d is.
C8_BoolResult ==
    out.fn = "Bool" =>
        LET s == Setting(in.e, in.key)
        IN  out.bool =
              IF s \in {Absent, <<>>} THEN in.defBool
              ELSE \E w \in { <<"t","r","u","e">>, <<"1">>, <<"o","n">>,
                               <<"y","e","s">>, <<"t">> } : Spells(s, w)

\* C8 witness: Bool("x", true) with "bogus" stored has returned false
C8_Witness ==
    /\ out.fn = "Bool"
    /\ in.key = "x"
    /\ Setting(in.e, "x") = <<"b","o","g","u","s">>
    /\ in.defBool
    /\ ~out.bool

\* s is an optional sign followed by one or more decimal digits
IsInteger(s) ==
    LET body == IF Len(s) > 0 /\ s[1] \in {"+", "-"} THEN Tail(s) ELSE s
    IN  /\ Len(body) > 0
        /\ \A i \in 1..Len(body) : body[i] \in {"0","1","2","3","4","5","6","7","8","9"}

\* the number a run of decimal digits denotes, from its last digit back
RECURSIVE Denotes(_)
Denotes(ds) ==
    IF Len(ds) = 0 THEN 0
    ELSE 10 * Denotes(SubSeq(ds, 1, Len(ds) - 1))
         + CASE ds[Len(ds)] = "0" -> 0 [] ds[Len(ds)] = "1" -> 1
             [] ds[Len(ds)] = "2" -> 2 [] ds[Len(ds)] = "3" -> 3
             [] ds[Len(ds)] = "4" -> 4 [] ds[Len(ds)] = "5" -> 5
             [] ds[Len(ds)] = "6" -> 6 [] ds[Len(ds)] = "7" -> 7
             [] ds[Len(ds)] = "8" -> 8 [] ds[Len(ds)] = "9" -> 9

\* C9: Int(key, d) is d when nothing or the empty string is stored under key
\* or the stored string is not an integer, and otherwise the integer the
\* string denotes, 0 and negative numbers included; an integer is all it
\* returns.
C9_IntResult ==
    out.fn = "Int" =>
        LET s == Setting(in.e, in.key)
        IN  out.int =
              IF s \in {Absent, <<>>} \/ ~IsInteger(s) THEN in.defInt
              ELSE IF s[1] = "-" THEN 0 - Denotes(Tail(s))
              ELSE IF s[1] = "+" THEN Denotes(Tail(s))
              ELSE Denotes(s)

\* C9 witness: Int("x", 30) with "abc" stored has returned 30
C9_Witness ==
    /\ out.fn = "Int"
    /\ in.key = "x"
    /\ Setting(in.e, "x") = <<"a","b","c">>
    /\ in.defInt = 30
    /\ out.int = 30

(***************************************************************************)
(* getProxyServers on its own: the specification SpecProxy draws a process *)
(* environment and two configuration stores, and resolves the proxies      *)
(* under each store                                                        *)
(***************************************************************************)

StrHttpsU == HttpsScheme \o <<"U">>
StrHttpsL == HttpsScheme \o <<"l">>
StrHttpU == <<"h","t","t","p",":","/","/","U">>
StrHttpL == <<"h","t","t","p",":","/","/","l">>
StrHttpC == <<"h","t","t","p",":","/","/","c">>

\* http.proxy of the configuration store: not set, empty, with the https
\* scheme, the scheme alone, and values that are not https:// URLs
StoreProxies ==
    { Absent, <<>>, StrProxyC, HttpsScheme, StrHttpC,
      <<"h","t","t","p","s",":","/","c">>, <<"H","T","T","P","S",":","/","/","c">> }

\* the variables of the process environment
ProxyOsChoices ==
    { ("HTTPS_PROXY" :> a) @@ ("https_proxy" :> b) @@ ("HTTP_PROXY" :> d)
        @@ ("http_proxy" :> e) @@ ("NO_PROXY" :> f) @@ ("no_proxy" :> g) :
        a \in {Absent, <<>>, StrHttpsU, <<"u">>},
        b \in {Absent, <<>>, StrHttpsL, <<"l">>},
        d \in {Absent, <<>>, StrHttpU},
        e \in {Absent, <<>>, StrHttpL},
        f \in {Absent, <<>>, <<"N">>},
        g \in {Absent, <<>>, <<"n">>} }

\* a second configuration store: empty, or one that sets a proxy and holds
\* keys named like the NO_PROXY variables
OtherStores ==
    { MakeTestEnv,
      Env( ("http.proxy" :> StrHttpC) @@ ("NO_PROXY" :> <<"g">>)
             @@ ("no_proxy" :> <<"g">>), NoHostSSLVerify, {} ) }

ProxyInputs ==
    { [ fn |-> "proxy", os |-> Env(WithSettings(f), NoHostSSLVerify, {}),
        git |-> Env(WithSettings([k \in {"http.proxy"} |-> p]), NoHostSSLVerify, {}),
        git2 |-> g2 ] :
        f \in ProxyOsChoices, p \in StoreProxies, g2 \in OtherStores }

\* no run of getProxyServers has been made
ProxyOut0 ==
    [ fn |-> "getProxyServers", ran |-> {},
      r1 |-> <<<<>>, <<>>, <<>>>>, r2 |-> <<<<>>, <<>>, <<>>>> ]

\* getProxyServers(in.os, in.git)
CallGetProxyServers ==
    /\ in.fn = "proxy"
    /\ 1 \notin out.ran
    /\ out' = [out EXCEPT !.ran = @ \cup {1}, !.r1 = getProxyServers(in.os, in.git)]
    /\ UNCHANGED pureVars

\* getProxyServers(in.os, in.git2): the same process, another store
CallGetProxyServersOther ==
    /\ in.fn = "proxy"
    /\ 2 \notin out.ran
    /\ out' = [out EXCEPT !.ran = @ \cup {2}, !.r2 = getProxyServers(in.os, in.git2)]
    /\ UNCHANGED pureVars

InitProxy == InitPure(ProxyInputs, ProxyOut0)

NextProxy == CallGetProxyServers \/ CallGetProxyServersOther

SpecProxy == InitProxy /\ [][NextProxy]_vars

\* a setting that is there and not empty
IsSet(s) == s \notin {Absent, <<>>}

\* the first of the settings that is set, else the last one's value, the
\* empty string standing for a variable that is absent
FirstSet(a, b) == IF IsSet(a) THEN a ELSE IF b = Absent THEN <<>> ELSE b

\* C3: the HTTPS proxy is http.proxy of the configuration store if that
\* begins with https://; otherwise HTTPS_PROXY if it is set and not empty;
\* otherwise https_proxy.
C3_HttpsProxy ==
    1 \in out.ran =>
        LET store == Setting(in.git, "http.proxy")
        IN  out.r1[1] =
              IF store \in {StrProxyC, HttpsScheme} THEN store
              ELSE FirstSet(Setting(in.os, "HTTPS_PROXY"), Setting(in.os, "https_proxy"))

\* C3 witness: the store's https:// proxy has been taken although HTTPS_PROXY
\* is set
C3_Witness ==
    /\ 1 \in out.ran
    /\ Setting(in.git, "http.proxy") = StrProxyC
    /\ Setting(in.os, "HTTPS_PROXY") = StrHttpsU
    /\ out.r1[1] = StrProxyC

\* C4: the HTTP proxy is http.proxy of the configuration store, whatever its
\* scheme, if it is set and not empty; otherwise HTTP_PROXY if it is set and
\* not empty; otherwise http_proxy.  With http.proxy = http://c and no proxy
\* variable in the process environment, the HTTPS proxy is empty and the
\* HTTP proxy is http://c.
C4_HttpProxy ==
    1 \in out.ran =>
        LET store == Setting(in.git, "http.proxy")
        IN  /\ out.r1[2] =
                  IF IsSet(store) THEN store
                  ELSE FirstSet(Setting(in.os, "HTTP_PROXY"), Setting(in.os, "http_proxy"))
            /\ ( /\ store = StrHttpC
                  /\ \A k \in {"HTTPS_PROXY", "https_proxy", "HTTP_PROXY", "http_proxy"} :
                        Setting(in.os, k) = Absent )
                => out.r1[1] = <<>> /\ out.r1[2] = StrHttpC

\* C4 witness: HTTP_PROXY is not set, http_proxy is, the store has no proxy,
\* and http_proxy's value has been returned
C4_Witness ==
    /\ 1 \in out.ran
    /\ Setting(in.git, "http.proxy") = Absent
    /\ Setting(in.os, "HTTP_PROXY") = Absent
    /\ Setting(in.os, "http_proxy") = StrHttpL
    /\ out.r1[2] = StrHttpL

\* C5: NO_PROXY is the process environment's NO_PROXY if set and not empty,
\* otherwise its no_proxy, under either configuration store: the two runs,
\* which differ in the store alone, return the same NO_PROXY.
C5_NoProxy ==
    /\ 1 \in out.ran =>
          out.r1[3] = FirstSet(Setting(in.os, "NO_PROXY"), Setting(in.os, "no_proxy"))
    /\ 2 \in out.ran =>
          out.r2[3] = FirstSet(Setting(in.os, "NO_PROXY"), Setting(in.os, "no_proxy"))
    /\ out.ran = {1, 2} => out.r1[3] = out.r2[3]

\* C5 witness: both runs are made, the second under a store that holds a
\* NO_PROXY key of its own, and both return the process's no_proxy
C5_Witness ==
    /\ out.ran = {1, 2}
    /\ in.git # in.git2
    /\ Setting(in.git2, "NO_PROXY") = <<"g">>
    /\ Setting(in.os, "NO_PROXY") = <<>>
    /\ Setting(in.os, "no_proxy") = <<"n">>
    /\ out.r1[3] = <<"n">> /\ out.r2[3] = <<"n">>

(***************************************************************************)
(* decodeResponse on its own: the specification SpecDecode draws a         *)
(* response (its Content-Type header values, its body, its request) and    *)
(* decodes it                                                              *)
(***************************************************************************)

\* the literal texts of lfsMediaTypeRE and jsonMediaTypeRE (lines 18-19)
LfsMediaType ==
    <<"a","p","p","l","i","c","a","t","i","o","n","/",
      "v","n","d",".","g","i","t","-","l","f","s","+","j","s","o","n">>
JsonMediaType ==
    <<"a","p","p","l","i","c","a","t","i","o","n","/","j","s","o","n">>

\* a pattern without its closing group: the literal at the start is enough
MatchPrefixOnly(literal, s) == HasPrefix(s, literal)

\* MatchString for a pattern \A<literal>(;|\z): s begins with the literal,
\* and a ";" or the end of s follows it
MatchMediaType(literal, s) ==
    /\ HasPrefix(s, literal)
    /\ \/ Len(s) = Len(literal)
       \/ s[Len(literal) + 1] = ";"

\* http.Header.Get: the first value of the header, "" if it has none
HeaderGet(values) == IF Len(values) = 0 THEN <<>> ELSE values[1]

\* json.NewDecoder(body).Decode(obj): the outcomes it can have.  A body that
\* does not parse gives an error, with obj left as it was or partly filled.
JsonDecode(body) ==
    IF body = "valid" THEN { [err |-> FALSE, obj |-> "decoded"] }
    ELSE { [err |-> TRUE, obj |-> "untouched"], [err |-> TRUE, obj |-> "partial"] }

\* a decodeResponse that returns the parse error without closing the body
decodeResponseLeak(res, decoded) ==
    LET ctype == HeaderGet(res.contentType)
    IN  IF ~(MatchMediaType(LfsMediaType, ctype) \/ MatchMediaType(JsonMediaType, ctype))
        THEN [ err |-> [isNil |-> TRUE], obj |-> "untouched",
               bodyRead |-> FALSE, closes |-> 0 ]
        ELSE [ err |-> IF decoded.err
                       THEN [ isNil |-> FALSE, wraps |-> "json",
                              method |-> res.request.method, url |-> res.request.url ]
                       ELSE [isNil |-> TRUE],
               obj |-> decoded.obj,
               bodyRead |-> TRUE,
               closes |-> IF decoded.err THEN 0 ELSE 1 ]

\* decodeResponse(res, obj), given the outcome of Decode: the returned error
\* and what has become of obj and of res.Body
decodeResponse(res, decoded) ==
    LET ctype == HeaderGet(res.contentType)
    IN  IF ~(MatchMediaType(LfsMediaType, ctype) \/ MatchMediaType(JsonMediaType, ctype))
        THEN [ err |-> [isNil |-> TRUE], obj |-> "untouched",
               bodyRead |-> FALSE, closes |-> 0 ]
        ELSE [ err |-> IF decoded.err
                       THEN [ isNil |-> FALSE, wraps |-> "json",
                              method |-> res.request.method, url |-> res.request.url ]
                       ELSE [isNil |-> TRUE],
               obj |-> decoded.obj,
               bodyRead |-> TRUE,
               closes |-> 1 ]

Charset == <<";"," ","c","h","a","r","s","e","t","=","u","t","f","-","8">>
TextPlain == <<"t","e","x","t","/","p","l","a","i","n">>

\* values of the Content-Type header built around a media type
Around(t) ==
    { t, t \o <<";">>, t \o Charset, t \o <<"x">>, t \o <<"+","x">>,
      t \o <<" ",";">>, t \o <<",">>, <<" ">> \o t, <<"x">> \o t,
      <<"A">> \o Tail(t), SubSeq(t, 1, Len(t) - 1) }

ContentTypes ==
    Around(LfsMediaType) \cup Around(JsonMediaType)
    \cup { <<>>, TextPlain,
           [i \in 1..Len(LfsMediaType) |->
               IF LfsMediaType[i] = "." THEN "x" ELSE LfsMediaType[i]] }

\* the header has no value, one value, or a second value after another
HeaderValues ==
    { <<>> } \cup { <<t>> : t \in ContentTypes }
    \cup { <<TextPlain, JsonMediaType>>, <<JsonMediaType, TextPlain>> }

DecodeInputs ==
    { [ fn |-> "decode",
        res |-> [ contentType |-> h, body |-> b,
                  request |-> [method |-> m, url |-> "url"] ] ] :
        h \in HeaderValues, b \in {"valid", "malformed"}, m \in {"GET", "POST"} }

\* decodeResponse has not been called
DecodeOut0 == [fn |-> "decodeResponse", called |-> FALSE]

\* err := decodeResponse(in.res, obj)
CallDecodeResponse ==
    /\ in.fn = "decode"
    /\ ~out.called
    /\ \E decoded \in JsonDecode(in.res.body) :
          out' = [fn |-> "decodeResponse", called |-> TRUE,
                  r |-> decodeResponse(in.res, decoded)]
    /\ UNCHANGED pureVars

InitDecode == InitPure(DecodeInputs, DecodeOut0)

NextDecode == CallDecodeResponse

SpecDecode == InitDecode /\ [][NextDecode]_vars

\* s is t, or t and a ";" and anything after it
IsOrHasParameters(s, t) ==
    \/ s = t
    \/ Len(s) > Len(t) /\ SubSeq(s, 1, Len(t) + 1) = t \o <<";">>

\* the value decodeResponse reads the content type from
ContentTypeValue == IF in.res.contentType = <<>> THEN <<>> ELSE Head(in.res.contentType)

\* C10: decodeResponse returns no error, leaves the target as it was and
\* neither reads nor closes the body unless the Content-Type value is
\* application/vnd.git-lfs+json or application/json, alone or followed by
\* ";" and anything; for those values the body is decoded.
C10_NoOpUnlessJson ==
    out.called =>
        IF \/ IsOrHasParameters(ContentTypeValue, LfsMediaType)
           \/ IsOrHasParameters(ContentTypeValue, JsonMediaType)
        THEN out.r.bodyRead
        ELSE /\ out.r.err.isNil
             /\ out.r.obj = "untouched"
             /\ ~out.r.bodyRead
             /\ out.r.closes = 0

\* C10 witness: a body that does not parse, under the longer media type
\* application/jsonx, has been left alone
C10_Witness ==
    /\ out.called
    /\ in.res.contentType = <<JsonMediaType \o <<"x">>>>
    /\ in.res.body = "malformed"
    /\ out.r.err.isNil /\ out.r.obj = "untouched" /\ out.r.closes = 0

\* the Content-Type value is one of the two JSON media types
IsJsonContentType ==
    \/ IsOrHasParameters(ContentTypeValue, LfsMediaType)
    \/ IsOrHasParameters(ContentTypeValue, JsonMediaType)

\* C11: when the content type matches, decodeResponse has closed the body
\* exactly once by the time it returns, whether decoding succeeded or failed;
\* a failed decoding returns an error that wraps the parse error and names
\* the request's method and URL, a successful one returns no error.
C11_ClosesOnceAndWraps ==
    (out.called /\ IsJsonContentType) =>
        /\ out.r.closes = 1
        /\ IF in.res.body = "valid"
           THEN out.r.err.isNil
           ELSE /\ ~out.r.err.isNil
                /\ out.r.err.wraps = "json"
                /\ out.r.err.method = in.res.request.method
                /\ out.r.err.url = in.res.request.url

\* C11 witness: a body that does not parse, sent as
\* application/vnd.git-lfs+json in answer to a POST, has been closed once and
\* the error names POST
C11_Witness ==
    /\ out.called
    /\ in.res.contentType = <<LfsMediaType>>
    /\ in.res.body = "malformed"
    /\ in.res.request.method = "POST"
    /\ out.r.closes = 1
    /\ ~out.r.err.isNil /\ out.r.err.method = "POST"

(***************************************************************************)
(* Do                                                                      *)
(***************************************************************************)

\* C12: when the transport call of a Do has failed, the Do has made one
\* transport call, has not called handleResponse, and has returned the
\* transport's error, which is not nil.
C12_TransportFailure ==
    \A t \in Callers :
        (frame[t].op = "Do" /\ frame[t].attempts > 0 /\ frame[t].err # "nil") =>
            /\ pc[t] = "done"
            /\ frame[t].attempts = 1
            /\ frame[t].handled = 0
            /\ frame[t].ret.err = frame[t].err
            /\ frame[t].ret.err # "nil"

\* C12 witness: a Do whose connection failed has returned the dial error
C12_Witness ==
    \E t \in Callers :
        /\ pc[t] = "done" /\ frame[t].op = "Do"
        /\ frame[t].err = "dial"
        /\ frame[t].attempts = 1 /\ frame[t].handled = 0
        /\ frame[t].ret.err = "dial"

\* C13: when the transport call of a Do has succeeded, the Do calls
\* handleResponse once, after the one transport call, and returns the
\* response it received together with what handleResponse returned; the
\* response is not nil, whether or not the error is.
C13_TransportSuccess ==
    \A t \in Callers :
        (frame[t].op = "Do" /\ frame[t].attempts > 0 /\ frame[t].err = "nil") =>
            /\ frame[t].attempts = 1
            /\ frame[t].res = "response"
            /\ \/ pc[t] = "handle" /\ frame[t].handled = 0 /\ frame[t].ret = NoReturn
               \/ /\ pc[t] = "done"
                  /\ frame[t].handled = 1
                  /\ frame[t].ret.res = frame[t].res
                  /\ frame[t].ret.err = frame[t].herr

\* C13 witness: a Do whose response could not be decoded has returned the
\* response and the decoding error
C13_Witness ==
    \E t \in Callers :
        /\ pc[t] = "done" /\ frame[t].op = "Do"
        /\ frame[t].err = "nil" /\ frame[t].herr = "decode"
        /\ frame[t].ret = [res |-> "response", err |-> "decode"]

(***************************************************************************)
(* Failure of NewClient                                                    *)
(***************************************************************************)

\* e, or the empty environment that stands in for an absent e
OrEmpty(e) == IF e.isNil THEN MakeTestEnv ELSE e

\* C14: NewClient returns an error exactly when ParseNetrc does, and then
\* the error is ParseNetrc's and the client is nil; in every other case,
\* whether or not the environments are given, it returns a client, which
\* holds the given environments or empty ones in their place, and no error.
C14_FailsOnlyOnNetrc ==
    made \in {"new", "failed"} =>
        /\ out.fn = "NewClient"
        /\ (made = "failed") <=> out.netrc.err
        /\ IF out.netrc.err
           THEN out.err = "netrc" /\ ~out.ok
           ELSE /\ out.err = "nil" /\ out.ok
                /\ c.osEnv = OrEmpty(osEnv) /\ c.gitEnv = OrEmpty(gitEnv)

\* C14 witness: NewClient, given no process environment and a configuration
\* store, has returned a client with an empty process environment
C14_Witness ==
    /\ made = "new" /\ out.fn = "NewClient" /\ out.ok /\ out.err = "nil"
    /\ osEnv.isNil /\ ~gitEnv.isNil
    /\ c.osEnv = MakeTestEnv /\ c.gitEnv = gitEnv

(***************************************************************************)
(* The lock                                                                *)
(***************************************************************************)

\* caller t is between lines 91 and 153 of httpClient
InSection(t) == pc[t] \in {"prepare", "lookup", "build", "insert", "unlock"}

\* C15: a caller between the Lock and the return of httpClient holds
\* clientMu and no other caller is between them, so no other caller reads
\* or writes the map; when a caller that missed host h is about to insert
\* its client, the map still has no entry for h and its client is the only
\* one built for h.
C15_CriticalSection ==
    \A t \in Callers :
        /\ InSection(t) =>
              /\ clientMu = t
              /\ \A u \in Callers \ {t} : ~InSection(u)
        /\ pc[t] = "insert" =>
              /\ CacheKey(frame[t].host) \notin DOMAIN c.hostClients.m
              /\ BuiltFor(frame[t].host) = {frame[t].client}

\* C15 witness: a caller has built the client of a host and is about to
\* insert it while another caller, asking for the same host, waits for the
\* lock
C15_Witness ==
    \E t \in Callers, u \in Callers :
        /\ t # u
        /\ pc[t] = "insert" /\ pc[u] = "lock"
        /\ frame[t].host = frame[u].host

\* C16: a caller that is not between the Lock and the return of httpClient
\* does not hold clientMu, in particular not while its Do is in the
\* transport call or in handleResponse; so a caller waiting for the lock
\* while the others are in those steps, or idle, can take it.
C16_LockOnlyInHttpClient ==
    \A t \in Callers :
        /\ ~InSection(t) => clientMu # t
        /\ (pc[t] = "lock" /\ \A u \in Callers \ {t} : ~InSection(u))
              => ENABLED Lock(t)

\* C16 witness: while the Do of one caller is in its transport call, the Do
\* of another caller for the same host has taken the lock and found the
\* client in the map
C16_Witness ==
    \E t \in Callers, u \in Callers :
        /\ t # u
        /\ pc[t] = "transport" /\ frame[t].op = "Do"
        /\ frame[u].op = "Do" /\ frame[u].host = frame[t].host
        /\ pc[u] = "unlock" /\ clientMu = u
        /\ frame[u].client = frame[t].client

(***************************************************************************)
(* Progress of httpClient under a fair scheduler                           *)
(***************************************************************************)

\* the steps of caller t inside httpClient, after it has asked for the lock
Running(t) ==
    Prepare(t) \/ Lookup(t) \/ Build(t) \/ Insert(t) \/ Unlock(t)

\* the scheduler runs every goroutine that can take a step, and sync.Mutex
\* hands the lock to a goroutine that keeps waiting for it (a waiter that
\* fails to acquire it for 1ms is served before new arrivals); callers are
\* free not to call, and the network is free not to answer
Fairness ==
    \A t \in Callers : SF_vars(Lock(t)) /\ WF_vars(Running(t))

\* the callers are given a Client that NewClient is to build, and make two
\* calls in all
InitFair == InitWith(MainEnvs, MaxCalls - 2)

SpecFair == InitFair /\ [][Next]_vars /\ Fairness

\* C17: under a fair scheduler every caller that asks for the lock in
\* httpClient gets it and then returns a client with the lock released by
\* itself, on the path that finds the client as on the path that builds it.
C17_EveryCallerReturns ==
    \A t \in Callers :
        (pc[t] = "lock") ~>
            (pc[t] \in {"transport", "done"} /\ frame[t].client # 0 /\ clientMu # t)

\* C17 witness: two callers have asked for the same host at the same time,
\* one has built the client and the other has found it, both have returned
\* it and the lock is free
C17_Witness ==
    /\ clientMu = 0
    /\ \E t \in Callers, u \in Callers :
          /\ t # u
          /\ pc[t] = "done" /\ pc[u] = "done"
          /\ frame[t].host = frame[u].host
          /\ frame[t].client # 0 /\ frame[t].client = frame[u].client
          /\ Len(heap) = 1

(***************************************************************************)
(* The TLS policy of a cached client                                       *)
(***************************************************************************)

\* the tls.Config of the client cached under key k
CachedTLS(k) == heap[c.hostClients.m[k]].Transport.TLSClientConfig

\* C18: the client cached for a host either has certificate checking
\* switched off and no trust roots, when verification is disabled for the
\* host, or has it switched on and the roots of the host (nil where the
\* host has none), when verification is enabled; none has checking
\* switched off and roots set.
C18_OneTLSPolicy ==
    \A k \in DOMAIN c.hostClients.m :
        /\ CachedTLS(k).InsecureSkipVerify = isCertVerificationDisabledForHost(c, k)
        /\ IF CachedTLS(k).InsecureSkipVerify
           THEN CachedTLS(k).RootCAs = "nil"
           ELSE CachedTLS(k).RootCAs = getRootCAsForHost(c, k)

\* C18 witness: two hosts have certificate authorities of their own; the
\* cached client of the one with verification enabled has them as roots,
\* that of the one with verification disabled has no roots
C18_Witness ==
    /\ {<<"h">>, <<"H">>} \subseteq DOMAIN c.hostClients.m
    /\ {<<"h">>, <<"H">>} \subseteq c.gitEnv.hostCAs
    /\ ~CachedTLS(<<"h">>).InsecureSkipVerify
    /\ CachedTLS(<<"h">>).RootCAs = "hostCAs"
    /\ CachedTLS(<<"H">>).InsecureSkipVerify
    /\ CachedTLS(<<"H">>).RootCAs = "nil"

(***************************************************************************)
(* The configuration snapshot                                              *)
(***************************************************************************)

\* the fields of Client cl that NewClient computes from the environments
Snapshot(cl) ==
    [ DialTimeout         |-> cl.DialTimeout,
      KeepaliveTimeout    |-> cl.KeepaliveTimeout,
      TLSTimeout          |-> cl.TLSTimeout,
      ConcurrentTransfers |-> cl.ConcurrentTransfers,
      SkipSSLVerify       |-> cl.SkipSSLVerify,
      HTTPSProxy          |-> cl.HTTPSProxy,
      HTTPProxy           |-> cl.HTTPProxy,
      NoProxy             |-> cl.NoProxy ]

\* C19: once the Client exists, no step of a httpClient or Do call changes
\* DialTimeout, KeepaliveTimeout, TLSTimeout, ConcurrentTransfers,
\* SkipSSLVerify or the three proxy strings; a step changes nothing of the
\* Client but the map, to which it only adds, and an environment that is
\* nil, which it replaces by an empty one.
C19_SnapshotFrozen ==
    [][ Constructed =>
          /\ Snapshot(c') = Snapshot(c)
          /\ c'.SkipPrompt = c.SkipPrompt
          /\ c'.gitEnv = OrEmpty(c.gitEnv) \/ c'.gitEnv = c.gitEnv
          /\ c'.osEnv = OrEmpty(c.osEnv) \/ c'.osEnv = c.osEnv
          /\ DOMAIN c.hostClients.m \subseteq DOMAIN c'.hostClients.m ]_vars

\* C19 witness: the Client that NewClient built has served calls for two
\* hosts, whose clients keep connections alive for the default time, and
\* still has the snapshot NewClient computed, with no keepalive time
C19_Witness ==
    /\ made = "new"
    /\ Cardinality(DOMAIN c.hostClients.m) = 2
    /\ \A k \in DOMAIN c.hostClients.m :
          heap[c.hostClients.m[k]].Transport.KeepAlive = 1800
    /\ c.KeepaliveTimeout = 0
    /\ Snapshot(c) = Snapshot(NewClient(osEnv, gitEnv, [err |-> FALSE]).c)

(***************************************************************************)
(* Mistyped verification settings                                          *)
(***************************************************************************)

\* the literals Bool knows, in lower case
KnownTrue == { <<"t","r","u","e">>, <<"1">>, <<"o","n">>, <<"y","e","s">>, <<"t">> }
KnownFalse == { <<"f","a","l","s","e">>, <<"0">>, <<"o","f","f">>, <<"n","o">>, <<"f">> }

\* setting s is set, is not empty and is none of the literals in any case
Unrecognized(s) ==
    /\ s # Absent
    /\ s # <<>>
    /\ ToLower(s) \notin KnownTrue \cup KnownFalse

\* C20: after NewClient, an http.sslverify that is set to a string Bool
\* does not recognize has made SkipSSLVerify true, whatever
\* GIT_SSL_NO_VERIFY says; a GIT_SSL_NO_VERIFY set to such a string has
\* not: SkipSSLVerify is then true only if http.sslverify is set to
\* something other than a true literal.
C20_MistypedSettings ==
    made = "new" =>
        LET verify   == Setting(gitEnv, "http.sslverify")
            noVerify == Setting(osEnv, "GIT_SSL_NO_VERIFY")
        IN  /\ Unrecognized(verify) => c.SkipSSLVerify
            /\ Unrecognized(noVerify) =>
                  (c.SkipSSLVerify <=>
                      (verify # Absent /\ verify # <<>> /\ ToLower(verify) \notin KnownTrue))

\* C20 witness: http.sslverify is "enabled", GIT_SSL_NO_VERIFY is not set,
\* and NewClient has switched verification off
C20_Witness ==
    /\ made = "new"
    /\ Setting(gitEnv, "http.sslverify") = <<"e","n","a","b","l","e","d">>
    /\ Setting(osEnv, "GIT_SSL_NO_VERIFY") = Absent
    /\ c.SkipSSLVerify
====
